---- MODULE Spec2Model ----
(***************************************************************************)
(* Model of the ScrollSpy component                                        *)
(* (src/packages/components/scroll-spy/index.tsx).                         *)
(*                                                                         *)
(* One component instance: its three refs (domRef, inViewRef,              *)
(* skipObserverRef), the IntersectionObserver sessions its effect creates  *)
(* and disconnects, and the imperative scrollTo handle.  React's commit    *)
(* (ref callbacks of the wrapper divs, then the effect cleanup and the     *)
(* effect) is one step.  JavaScript arrays are 0-based; the sequences here *)
(* are 1-based, and every index that crosses the component's interface     *)
(* (scrollTo's idx, onActiveChange's argument) is kept 0-based.            *)
(***************************************************************************)
EXTENDS Integers, Sequences, FiniteSets, TLC

\* ---- bounds ----
MaxChildren == 2   \* most children rendered at once
MaxEls == 2        \* most wrapper elements created over the lifetime
MaxLive == 2       \* most observers alive at once

\* What wrapper.childNodes[0] can be: an element, a text node, or missing.
Kinds == {"element", "text", "none"}

VARIABLES
  phase,            \* "init" | "mounted" | "unmounted"
  mounted,          \* mounted[i+1] = wrapper element currently rendered with key i
  nEls,             \* number of wrapper elements created so far
  childNodes0,      \* childNodes0[el] = kind of el.childNodes[0]
  domRef,           \* domRef.current
  inViewRef,        \* inViewRef.current
  skipObserverRef,  \* skipObserverRef.current
  live,             \* observers created and not disconnected: id -> observed elements
  cleanup,          \* observer the pending effect cleanup disconnects; 0 for () => {}
  lastOp,           \* history: the operation that produced this state
  trace             \* history: what that operation did, in order

vars == <<phase, mounted, nEls, childNodes0, domRef, inViewRef, skipObserverRef,
          live, cleanup, lastOp, trace>>

\* ---- history records ----
\* first: the batch is the first operation after the mount.  entries: the
\* changeList of a batch that found the flag set.  opts: the scrollTo call
\* was given a topOffset or a root option.
NoOpts == [topOffset |-> "undefined", root |-> "undefined"]

OpWith(op, idx, smooth, rerun, sess, skipBefore, first, entries, opts) ==
  [op |-> op, idx |-> idx, smooth |-> smooth, rerun |-> rerun, sess |-> sess,
   skipBefore |-> skipBefore, first |-> first, entries |-> entries, opts |-> opts]

Op(op, idx, smooth, rerun, sess, skipBefore, first, entries) ==
  OpWith(op, idx, smooth, rerun, sess, skipBefore, first, entries, FALSE)

Ev(ev, idx, el, smooth, vec, sess) ==
  [ev |-> ev, idx |-> idx, el |-> el, smooth |-> smooth, vec |-> vec, sess |-> sess]

EvSetSkip == Ev("setSkip", 0, 0, FALSE, <<>>, 0)
EvThrow == Ev("throw", 0, 0, FALSE, <<>>, 0)
EvScroll(el, smooth) == Ev("scrollIntoView", 0, el, smooth, <<>>, 0)
EvActive(i) == Ev("onActiveChange", i, 0, FALSE, <<>>, 0)
EvInView(vec) == Ev("onInViewChange", 0, 0, FALSE, vec, 0)
EvDisconnect(s) == Ev("disconnect", 0, 0, FALSE, <<>>, s)
EvCreate(s) == Ev("create", 0, 0, FALSE, <<>>, s)
EvObserve(s, el) == Ev("observe", 0, el, FALSE, <<>>, s)

\* ---- JavaScript array helpers (0-based results) ----
Range(s) == {s[k] : k \in DOMAIN s}

\* Array.prototype.indexOf: smallest 0-based index holding x, or -1.
IndexOf(arr, x) ==
  IF \E k \in DOMAIN arr : arr[k] = x
    THEN (CHOOSE k \in DOMAIN arr : arr[k] = x /\ \A j \in 1..(k-1) : arr[j] # x) - 1
    ELSE -1

\* arr[idx] = v.  A negative idx sets a property, not an element; an idx past
\* the end pads the array with holes ("hole" is never equal to true).
ArraySet(arr, idx, v, hole) ==
  IF idx < 0 THEN arr
  ELSE IF idx < Len(arr) THEN [arr EXCEPT ![idx + 1] = v]
  ELSE [k \in 1..(idx + 1) |-> IF k <= Len(arr) THEN arr[k]
                               ELSE IF k = idx + 1 THEN v ELSE hole]

\* ---- the wrapper's ref callback (index.tsx 110-114) ----
\* A ref callback without the includes test: every attachment registers.
RefCallbackAlways(refs, idx, el) ==
  IF el = 0 THEN refs
  ELSE [dom |-> [k \in 1..(IF idx < Len(refs.dom) THEN Len(refs.dom) ELSE idx + 1) |->
                   IF k = idx + 1 THEN el ELSE IF k <= Len(refs.dom) THEN refs.dom[k] ELSE 0],
        inView |-> refs.inView \o <<TRUE>>]

\* refs = [dom, inView]: domRef.current and inViewRef.current
RefCallback(refs, idx, el) ==
  IF el = 0 \/ el \in Range(refs.dom) THEN refs
  ELSE [dom |-> ArraySet(refs.dom, idx, el, 0),
        inView |-> Append(refs.inView, TRUE)]

\* Commit of a render: the ref callback of every rendered wrapper, in key order.
RECURSIVE AttachRefs(_, _, _)
AttachRefs(refs, els, k) ==
  IF k > Len(els) THEN refs
  ELSE AttachRefs(RefCallback(refs, k - 1, els[k]), els, k + 1)

\* childNodes[0] of a wrapper: the spacer when topOffset is defined, else the
\* first node the child renders (index.tsx 117-126).
FirstNode(top, kid) == IF top THEN "element" ELSE kid

\* ---- the observer callback (index.tsx 42-57) ----
\* The changeList of a batch: one entry per reported target, by element id.
RECURSIVE ChangeList(_)
ChangeList(vis) ==
  IF DOMAIN vis = {} THEN <<>>
  ELSE LET el == CHOOSE e \in DOMAIN vis : \A f \in DOMAIN vis : e <= f
       IN <<[target |-> el, isIntersecting |-> vis[el]]>>
          \o ChangeList([f \in DOMAIN vis \ {el} |-> vis[f]])

\* changeList.forEach: inViewRef.current[domRef.current.indexOf(target)] = isIntersecting
RECURSIVE ForEachChange(_, _, _)
ForEachChange(refs, changeList, k) ==
  IF k > Len(changeList) THEN refs
  ELSE LET idx == IndexOf(refs.dom, changeList[k].target)
       IN ForEachChange(
            [dom |-> refs.dom,
             inView |-> ArraySet(refs.inView, idx, changeList[k].isIntersecting, "hole")],
            changeList, k + 1)

\* A callback that reports indexOf's result as it is.
ActiveIndexRaw(inView) == IndexOf(inView, TRUE)

\* A callback that takes the last visible entry (lastIndexOf) instead of the first.
ActiveIndexLast(inView) ==
  IF \E k \in DOMAIN inView : inView[k] = TRUE
    THEN (CHOOSE k \in DOMAIN inView : inView[k] = TRUE /\ \A j \in (k+1)..Len(inView) : inView[j] # TRUE) - 1
    ELSE 0

\* activeIndex >= 0 ? activeIndex : 0, with activeIndex = inViewRef.current.indexOf(true)
ActiveIndex(inView) ==
  LET activeIndex == IndexOf(inView, TRUE)
  IN IF activeIndex >= 0 THEN activeIndex ELSE 0

\* A callback that returns on the flag without resetting it.
ReportKeepFlag(inView, skip) ==
  IF skip THEN [skip |-> TRUE, trace |-> <<>>]
  ELSE [skip |-> skip,
        trace |-> <<EvInView(inView), EvActive(ActiveIndex(inView))>>]

\* A callback that invokes onActiveChange before onInViewChange.
ReportActiveFirst(inView, skip) ==
  IF skip THEN [skip |-> FALSE, trace |-> <<>>]
  ELSE [skip |-> skip,
        trace |-> <<EvActive(ActiveIndex(inView)), EvInView(inView)>>]

\* What the callback reports once the entries are applied (index.tsx 48-56).
Report(inView, skip) ==
  IF skip THEN [skip |-> FALSE, trace |-> <<>>]
  ELSE [skip |-> skip,
        trace |-> <<EvInView(inView), EvActive(ActiveIndex(inView))>>]

\* ---- scrollTo (index.tsx 71-89) ----
\* domRef.current[idx]?.childNodes[0]: "none" when there is no such node.
TargetDom(dom, cn0, idx) ==
  IF idx >= 0 /\ idx < Len(dom) /\ dom[idx + 1] # 0 THEN cn0[dom[idx + 1]] ELSE "none"

\* The per-call options besides idx and smooth (index.tsx 12-17).
ScrollOptions == [topOffset : {"undefined", "64"}, root : {"undefined", "element"}]

\* A scrollTo that scrolls inside the root option and gives up without one mounted.
ScrollToResultInRoot(dom, cn0, skip, idx, smooth, opts) ==
  LET targetDom == IF opts.root = "element" THEN "none" ELSE TargetDom(dom, cn0, idx)
  IN IF targetDom = "none" THEN [skip |-> skip, trace |-> <<>>]
     ELSE IF targetDom = "text"
       THEN [skip |-> TRUE, trace |-> <<EvSetSkip, EvThrow>>]
     ELSE [skip |-> TRUE,
           trace |-> <<EvSetSkip, EvScroll(dom[idx + 1], smooth)>>
                     \o (IF ~smooth THEN <<EvActive(idx)>> ELSE <<>>)]

\* const { idx, smooth = false } = options: topOffset and root are not read.
ScrollToResult(dom, cn0, skip, idx, smooth, opts) ==
  LET targetDom == TargetDom(dom, cn0, idx)
  IN IF targetDom = "none" THEN [skip |-> skip, trace |-> <<>>]
     ELSE IF targetDom = "text"
       \* a text node has no scrollIntoView method: TypeError after the flag is set
       THEN [skip |-> TRUE, trace |-> <<EvSetSkip, EvThrow>>]
     ELSE [skip |-> TRUE,
           trace |-> <<EvSetSkip, EvScroll(dom[idx + 1], smooth)>>
                     \o (IF ~smooth THEN <<EvActive(idx)>> ELSE <<>>)]

\* ---- the effect and its cleanup (index.tsx 36-66) ----
\* A disconnect that leaves the observer observing.
DisconnectNothing(lv, s) == lv

\* observer.disconnect()
Disconnect(lv, s) == [t \in DOMAIN lv \ {s} |-> lv[t]]

\* The targets observed by a new observer: domRef.current.forEach(observe).
ObserveAll(dom) == SelectSeq(dom, LAMBDA el : el # 0)

\* new IntersectionObserver(...): a name for the new observer.
NewObserver(lv) == CHOOSE t \in 1..(MaxLive + 1) : t \notin DOMAIN lv /\ \A u \in 1..(t - 1) : u \in DOMAIN lv

\* An effect that returns no cleanup: the previous observer is left alone.
RunEffectNoCleanup(lv, cl, dom) ==
  LET observer == NewObserver(lv)
  IN IF Len(dom) = 0
       THEN [live |-> lv, cleanup |-> 0, trace |-> <<>>]
       ELSE [live |-> [t \in DOMAIN lv \cup {observer} |->
                         IF t = observer THEN ObserveAll(dom) ELSE lv[t]],
             cleanup |-> observer,
             trace |-> <<EvCreate(observer)>>
                       \o [k \in 1..Len(ObserveAll(dom)) |-> EvObserve(observer, ObserveAll(dom)[k])]]

\* Cleanup of the previous effect, then the effect.  Gives the live observers,
\* the observer the next cleanup disconnects (0 for () => {}), and the events.
RunEffect(lv, cl, dom) ==
  LET afterCleanup == IF cl # 0 THEN Disconnect(lv, cl) ELSE lv
      evCleanup == IF cl # 0 THEN <<EvDisconnect(cl)>> ELSE <<>>
      observer == NewObserver(afterCleanup)
  IN IF Len(dom) = 0
       THEN [live |-> afterCleanup, cleanup |-> 0, trace |-> evCleanup]
       ELSE [live |-> [t \in DOMAIN afterCleanup \cup {observer} |->
                         IF t = observer THEN ObserveAll(dom) ELSE afterCleanup[t]],
             cleanup |-> observer,
             trace |-> evCleanup \o <<EvCreate(observer)>>
                       \o [k \in 1..Len(ObserveAll(dom)) |-> EvObserve(observer, ObserveAll(dom)[k])]]

\* ---- state machine ----
\* The first DOM nodes of c new children.
NewKids(c) == [1..c -> Kinds]

Init ==
  /\ phase = "init"
  /\ mounted = <<>>
  /\ nEls = 0
  /\ childNodes0 = <<>>
  /\ domRef = <<>>
  /\ inViewRef = <<>>
  /\ skipObserverRef = FALSE
  /\ live = <<>>
  /\ cleanup = 0
  /\ lastOp = Op("init", 0, FALSE, FALSE, 0, FALSE, FALSE, <<>>)
  /\ trace = <<>>

\* A render of m children with topOffset defined or not, committed: wrappers
\* of keys that disappeared are detached (their ref callback gets null and
\* returns), wrappers of new keys are created (kids gives the first DOM node
\* each new child renders), every rendered wrapper's ref callback runs, and
\* when a dependency changed the effect is re-run.  A wrapper that neither
\* the render nor domRef refers to any more is forgotten.
Commit(m, kids, top, rerun, op) ==
  LET n == Len(mounted)
      els == [k \in 1..m |-> IF k <= n THEN mounted[k] ELSE nEls + (k - n)]
      created == IF m > n THEN m - n ELSE 0
      refs == AttachRefs([dom |-> domRef, inView |-> inViewRef], els, 1)
      eff == IF rerun THEN RunEffect(live, cleanup, refs.dom)
             ELSE [live |-> live, cleanup |-> cleanup, trace |-> <<>>]
  IN /\ nEls + created <= MaxEls
     /\ Cardinality(DOMAIN eff.live) <= MaxLive
     /\ phase' = "mounted"
     /\ mounted' = els
     /\ nEls' = nEls + created
     /\ childNodes0' = [e \in 1..(nEls + created) |->
                          IF e > nEls THEN FirstNode(top, kids[e - nEls])
                          ELSE IF e \in Range(els) \cup Range(refs.dom) THEN childNodes0[e]
                          ELSE "none"]
     /\ domRef' = refs.dom
     /\ inViewRef' = refs.inView
     /\ live' = eff.live
     /\ cleanup' = eff.cleanup
     /\ trace' = eff.trace
     /\ lastOp' = Op(op, 0, FALSE, rerun, eff.cleanup, skipObserverRef, FALSE, <<>>)
     /\ UNCHANGED skipObserverRef

\* First render of the component.
Mount ==
  /\ phase = "init"
  /\ \E m \in 0..MaxChildren, top \in BOOLEAN :
       \E kids \in NewKids(m) : Commit(m, kids, top, TRUE, "mount")

\* A later render.  The effect is re-run when one of its dependencies
\* (rootMargin, root, children, the callbacks) changed; a render with another
\* number of children always changes the children dependency.
Render ==
  /\ phase = "mounted"
  /\ \E m \in 0..MaxChildren, top \in BOOLEAN, rerun \in BOOLEAN :
       /\ (m # Len(mounted) => rerun)
       /\ \E kids \in NewKids(IF m > Len(mounted) THEN m - Len(mounted) ELSE 0) :
            Commit(m, kids, top, rerun, "render")

\* The first DOM node of a rendered wrapper changes: the spacer appears or
\* goes with topOffset, or the child renders other content.
ContentChange ==
  /\ phase = "mounted"
  /\ \E k \in DOMAIN mounted, kind \in Kinds :
       /\ childNodes0[mounted[k]] # kind
       /\ childNodes0' = [childNodes0 EXCEPT ![mounted[k]] = kind]
       /\ lastOp' = Op("content", k - 1, FALSE, FALSE, 0, skipObserverRef, FALSE, <<>>)
       /\ trace' = <<>>
       /\ UNCHANGED <<phase, mounted, nEls, domRef, inViewRef, skipObserverRef, live, cleanup>>

\* A callback that tests the flag first and returns before applying the entries.
ObservationBatchReturnEarly ==
  \E s \in DOMAIN live :
    \E S \in SUBSET Range(live[s]) :
      /\ S # {}
      /\ \E vis \in [S -> BOOLEAN] :
           LET refs == IF skipObserverRef THEN [dom |-> domRef, inView |-> inViewRef]
                       ELSE ForEachChange([dom |-> domRef, inView |-> inViewRef], ChangeList(vis), 1)
               rep == Report(refs.inView, skipObserverRef)
           IN /\ inViewRef' = refs.inView
              /\ skipObserverRef' = rep.skip
              /\ trace' = rep.trace
              /\ lastOp' = Op("batch", 0, FALSE, FALSE, s, skipObserverRef, lastOp.op = "mount",
                             IF skipObserverRef THEN ChangeList(vis) ELSE <<>>)
              /\ UNCHANGED <<phase, mounted, nEls, childNodes0, domRef, live, cleanup>>

\* The browser delivers a batch of entries to a live observer's callback.
ObservationBatch ==
  \E s \in DOMAIN live :
    \E S \in SUBSET Range(live[s]) :
      /\ S # {}
      /\ \E vis \in [S -> BOOLEAN] :
           LET refs == ForEachChange([dom |-> domRef, inView |-> inViewRef], ChangeList(vis), 1)
               rep == Report(refs.inView, skipObserverRef)
           IN /\ inViewRef' = refs.inView
              /\ skipObserverRef' = rep.skip
              /\ trace' = rep.trace
              /\ lastOp' = Op("batch", 0, FALSE, FALSE, s, skipObserverRef, lastOp.op = "mount",
                             IF skipObserverRef THEN ChangeList(vis) ELSE <<>>)
              /\ UNCHANGED <<phase, mounted, nEls, childNodes0, domRef, live, cleanup>>

\* The parent calls the imperative handle.
ScrollTo ==
  /\ phase = "mounted"
  /\ \E idx \in (-1)..MaxChildren, smooth \in BOOLEAN, opts \in ScrollOptions :
       LET r == ScrollToResult(domRef, childNodes0, skipObserverRef, idx, smooth, opts)
       IN /\ skipObserverRef' = r.skip
          /\ trace' = r.trace
          /\ lastOp' = OpWith("scrollTo", idx, smooth, FALSE, 0, skipObserverRef, FALSE, <<>>, opts # NoOpts)
          /\ UNCHANGED <<phase, mounted, nEls, childNodes0, domRef, inViewRef, live, cleanup>>

\* The component is unmounted: every wrapper's ref callback gets null (and
\* returns), and the effect's cleanup runs.
Unmount ==
  /\ phase = "mounted"
  /\ phase' = "unmounted"
  /\ mounted' = <<>>
  /\ live' = (IF cleanup # 0 THEN Disconnect(live, cleanup) ELSE live)
  /\ trace' = (IF cleanup # 0 THEN <<EvDisconnect(cleanup)>> ELSE <<>>)
  /\ cleanup' = 0
  /\ lastOp' = Op("unmount", 0, FALSE, FALSE, cleanup, skipObserverRef, FALSE, <<>>)
  /\ UNCHANGED <<nEls, childNodes0, domRef, inViewRef, skipObserverRef>>

Next == Mount \/ Render \/ ContentChange \/ ObservationBatch \/ ScrollTo \/ Unmount

Spec == Init /\ [][Next]_vars

\* ---- properties ----
NumEv(name) == Cardinality({k \in DOMAIN trace : trace[k].ev = name})

Rendered(idx) == idx >= 0 /\ idx < Len(mounted)

\* C1: an observation batch that is not suppressed invokes onActiveChange
\* exactly once, with the smallest index whose entry of the visibility vector
\* is true once the batch's entries are applied, or with 0 when none is true.
C1_ActiveIsFirstVisible ==
  (lastOp.op = "batch" /\ ~lastOp.skipBefore) =>
    /\ NumEv("onActiveChange") = 1
    /\ \A k \in DOMAIN trace : trace[k].ev = "onActiveChange" =>
         IF \E j \in DOMAIN inViewRef : inViewRef[j] = TRUE
           THEN /\ trace[k].idx + 1 \in DOMAIN inViewRef
                /\ inViewRef[trace[k].idx + 1] = TRUE
                /\ \A j \in 1..trace[k].idx : inViewRef[j] # TRUE
           ELSE trace[k].idx = 0

\* C1 witness: a reported batch leaves [false, true] and reports 1.
C1_Witness ==
  /\ lastOp.op = "batch" /\ ~lastOp.skipBefore
  /\ inViewRef = <<FALSE, TRUE>>
  /\ trace[Len(trace)] = EvActive(1)

\* C2: scrollTo({idx, smooth: false}) on a rendered child sets the flag,
\* requests one scroll-into-view of child idx's region, and invokes
\* onActiveChange(idx) once, in this order, and nothing else.
C2_ScrollToRendered ==
  (lastOp.op = "scrollTo" /\ ~lastOp.smooth /\ Rendered(lastOp.idx)) =>
    /\ skipObserverRef
    /\ trace = <<EvSetSkip, EvScroll(mounted[lastOp.idx + 1], FALSE), EvActive(lastOp.idx)>>

\* C3: the flag is set only by a scrollTo that resolves its target; every
\* batch leaves it false; a batch that found it set invokes no callback, and
\* a batch that found it clear reports; nothing else changes the flag.
C3_FlagStep ==
  /\ (skipObserverRef' /\ ~skipObserverRef) =>
       /\ lastOp'.op = "scrollTo"
       /\ TargetDom(domRef, childNodes0, lastOp'.idx) # "none"
  /\ (~skipObserverRef' /\ skipObserverRef) => lastOp'.op = "batch"
  /\ lastOp'.op = "batch" =>
       /\ ~skipObserverRef'
       /\ (skipObserverRef => trace' = <<>>)
       /\ (~skipObserverRef =>
             /\ Len(trace') = 2
             /\ trace'[1].ev = "onInViewChange"
             /\ trace'[2].ev = "onActiveChange")

C3_Flag == (lastOp.op = "init" => ~skipObserverRef) /\ [][C3_FlagStep]_vars

\* C3 witness: a batch consumed a flag that a scrollTo had set.
C3_Witness ==
  /\ lastOp.op = "batch" /\ lastOp.skipBefore
  /\ ~skipObserverRef /\ trace = <<>>

\* C4: scrollTo with an idx that is not the index of a rendered child does
\* nothing: no callback, no scroll request, no error, flag unchanged.
C4_ScrollToUnrendered ==
  (lastOp.op = "scrollTo" /\ ~Rendered(lastOp.idx)) =>
    /\ trace = <<>>
    /\ skipObserverRef = lastOp.skipBefore

\* C5: the visibility vector is as long as the number of rendered children.
C5_VectorLength ==
  phase = "mounted" => Len(inViewRef) = Len(mounted)

\* C6: after a change of the child set the registry, and the regions the live
\* observer observes, are the wrappers of the rendered children, in order.
C6_ObservedAreRendered ==
  (phase = "mounted" /\ lastOp.op = "render" /\ lastOp.rerun) =>
    /\ domRef = mounted
    /\ \A s \in DOMAIN live : live[s] = mounted

\* C7: a rebuild of the tracking starts from a visibility vector with no
\* value recorded by an earlier observer: every entry is the default, true.
C7_RebuildDiscards ==
  (lastOp.op = "render" /\ lastOp.rerun) =>
    \A k \in DOMAIN inViewRef : inViewRef[k] = TRUE

\* C8: at most one observer is live; a rebuild disconnects the old observer
\* before it creates the new one; a batch comes from the live observer only.
C8_OneSession ==
  /\ Cardinality(DOMAIN live) <= 1
  /\ DOMAIN live \subseteq {cleanup}
  /\ \A i, j \in DOMAIN trace :
       (trace[i].ev = "disconnect" /\ trace[j].ev = "create") => i < j
  /\ lastOp.op = "batch" => lastOp.sess \in DOMAIN live

\* C8 witness: a rebuild that disconnected one observer and created the next.
C8_Witness ==
  /\ lastOp.op = "render" /\ lastOp.rerun
  /\ NumEv("disconnect") = 1 /\ NumEv("create") = 1
  /\ Cardinality(DOMAIN live) = 1
  /\ Len(mounted) >= 1 /\ live[cleanup] = mounted

\* C9: with zero children no observer is live and the tracker invokes no
\* callback.
C9_NoChildrenNoTracking ==
  (phase = "mounted" /\ Len(mounted) = 0) =>
    /\ DOMAIN live = {}
    /\ lastOp.op # "batch"

\* C10: an unmount disconnects the live observer without an error, and no
\* batch is delivered afterwards.
C10_UnmountStops ==
  phase = "unmounted" =>
    /\ DOMAIN live = {}
    /\ lastOp.op = "unmount"
    /\ NumEv("throw") = 0
    /\ NumEv("onActiveChange") = 0 /\ NumEv("onInViewChange") = 0

\* C10 witness: the unmount found an observer live and disconnected it.
C10_Witness ==
  /\ phase = "unmounted"
  /\ lastOp.sess # 0
  /\ trace = <<EvDisconnect(lastOp.sess)>>

\* C11: an unsuppressed batch invokes onInViewChange with the whole
\* visibility vector and then onActiveChange, and nothing else; a suppressed
\* batch invokes neither.
C11_BatchCallbacks ==
  lastOp.op = "batch" =>
    IF lastOp.skipBefore THEN trace = <<>>
    ELSE /\ Len(trace) = 2
         /\ trace[1] = EvInView(inViewRef)
         /\ trace[2].ev = "onActiveChange"

\* C11 witness: a batch on two children changed one entry and reported both.
C11_Witness ==
  /\ lastOp.op = "batch" /\ ~lastOp.skipBefore
  /\ trace[1] = EvInView(<<TRUE, FALSE>>)
  /\ trace[2] = EvActive(0)

\* C12: scrollTo({idx, smooth: true}) on a rendered child sets the flag and
\* requests one smooth scroll-into-view of child idx's region, with no callback.
C12_SmoothScrollTo ==
  (lastOp.op = "scrollTo" /\ lastOp.smooth /\ Rendered(lastOp.idx)) =>
    /\ skipObserverRef
    /\ trace = <<EvSetSkip, EvScroll(mounted[lastOp.idx + 1], TRUE)>>

\* C13: when the first batch after the mount of a non-empty child set leaves
\* every rendered child visible, onActiveChange is invoked with 0.
C13_FirstBatchReportsZero ==
  (/\ lastOp.op = "batch" /\ lastOp.first
   /\ Len(mounted) >= 1
   /\ \A k \in DOMAIN mounted : inViewRef[IndexOf(domRef, mounted[k]) + 1] = TRUE) =>
    /\ NumEv("onActiveChange") = 1
    /\ trace[Len(trace)] = EvActive(0)

\* C13 witness: two children mounted, the first batch leaves both visible.
C13_Witness ==
  /\ lastOp.op = "batch" /\ lastOp.first
  /\ Len(mounted) = 2 /\ inViewRef = <<TRUE, TRUE>>
  /\ trace[2] = EvActive(0)

\* C14: a step that attaches a new wrapper at index i leaves entry i of the
\* visibility vector true.
C14_AttachedVisible ==
  [][\A k \in DOMAIN mounted' : mounted'[k] > nEls => inViewRef'[k] = TRUE]_vars

\* C15: scrollTo never raises an error, whatever idx and whatever the child
\* renders.
C15_ScrollToNeverThrows ==
  lastOp.op = "scrollTo" => NumEv("throw") = 0

\* C16: in every state, two scrollTo calls with the same idx and smooth and
\* any topOffset and root options have the same outcome: the same scroll
\* request, the same callbacks, the same flag.
C16_OptionsIgnored ==
  phase = "mounted" =>
    \A idx \in (-1)..MaxChildren, smooth \in BOOLEAN, o1 \in ScrollOptions, o2 \in ScrollOptions :
      ScrollToResult(domRef, childNodes0, skipObserverRef, idx, smooth, o1)
        = ScrollToResult(domRef, childNodes0, skipObserverRef, idx, smooth, o2)

\* C16 witness: a scrollTo called with a topOffset or root option scrolled and reported.
C16_Witness ==
  /\ lastOp.op = "scrollTo"
  /\ lastOp.opts /\ ~lastOp.smooth
  /\ Rendered(lastOp.idx)
  /\ trace = <<EvSetSkip, EvScroll(mounted[lastOp.idx + 1], FALSE), EvActive(lastOp.idx)>>

\* C17: every index a batch passes to onActiveChange is the index of a
\* rendered child.
C17_ActiveIndexValid ==
  lastOp.op = "batch" =>
    \A k \in DOMAIN trace : trace[k].ev = "onActiveChange" => Rendered(trace[k].idx)

\* C18: a flag set by scrollTo does not outlive the scroll to swallow a later
\* batch; in particular it does not survive a rebuild of the tracking, so the
\* new observer starts with the flag clear.
C18_NoLeftoverFlag ==
  (lastOp.op = "render" /\ lastOp.rerun) => ~skipObserverRef

\* C19: a batch that finds the flag set still applies every entry to the
\* visibility vector before it returns without a callback.
C19_SuppressedBatchApplies ==
  (lastOp.op = "batch" /\ lastOp.skipBefore) =>
    /\ trace = <<>>
    /\ lastOp.entries # <<>>
    /\ \A k \in DOMAIN lastOp.entries :
         IndexOf(domRef, lastOp.entries[k].target) >= 0 =>
           inViewRef[IndexOf(domRef, lastOp.entries[k].target) + 1]
             = lastOp.entries[k].isIntersecting

\* C19 witness: a suppressed batch reported both children as not visible.
C19_Witness ==
  /\ lastOp.op = "batch" /\ lastOp.skipBefore
  /\ Len(lastOp.entries) = 2
  /\ inViewRef = <<FALSE, FALSE>>

\* C20: a re-render with the same number of children leaves the registry, the
\* visibility vector and the flag as they were.
C20_RenderStep ==
  (phase = "mounted" /\ lastOp'.op = "render" /\ Len(mounted') = Len(mounted)) =>
    /\ domRef' = domRef
    /\ inViewRef' = inViewRef
    /\ skipObserverRef' = skipObserverRef

C20_SameCountRender == [][C20_RenderStep]_vars

\* C20 witness: a re-render of two children that did not re-run the effect
\* kept a vector the observer had written.
C20_Witness ==
  /\ lastOp.op = "render" /\ ~lastOp.rerun
  /\ Len(mounted) = 2 /\ domRef = mounted
  /\ inViewRef = <<FALSE, TRUE>>

====
